---- MODULE Spec2Model ----
(***************************************************************************)
(* A model of jcc.palettes: the Palette class (cached lookup table, lazy   *)
(* palette data, build / np.save), the parallel table builder              *)
(* _create_lookup_table, the RGB enumeration _get_all_rgbs and             *)
(* quantize_with_palette.                                                  *)
(*                                                                         *)
(* Scale.  The program works on 256 levels per channel, a table of uint16   *)
(* entries and a float32 distance buffer.  256^3 table entries and 2^16    *)
(* palette rows are beyond an explicit-state search, so the three widths   *)
(* are scaled down together: Levels levels per channel (for 256),          *)
(* IndexBits bits per table entry (for 16) and F32Mantissa significant     *)
(* bits per float32 (for 24), with distances kept exact before they are    *)
(* stored (the float64 value the distance function returns).  Arrays are   *)
(* sequences, so position i of an array is element i + 1.                  *)
(***************************************************************************)
EXTENDS Integers, Sequences, FiniteSets, TLC

Levels == 3
IndexBits == 2
F32Mantissa == 8
MaxWorkers == 2

VARIABLES
    csv,      \* rows of the palette CSV file at data_path
    npy,      \* the file at cached_data_path: <<>> when absent, else <<file>>
    data,     \* the instance's memo of the `data` cached_property, <<>> or <<rows>>
    lut,      \* the instance's memo of `lookup_table`, <<>> or <<table>>
    pc,       \* where a running build() is; "idle" when none is
    arr,      \* build()'s local arr: <<>> or <<table>>
    result,   \* what the last call returned or raised
    nthreads, \* _create_lookup_table: number of workers of the parallel loop
    wnext,    \* per worker, the iteration of the outer prange it is at
    wfilled,  \* per worker, whether its deltaes buffer is filled for that iteration
    deltaes,  \* the distance buffers
    out       \* _create_lookup_table's output array

vars == <<csv, npy, data, lut, pc, arr, result, nthreads, wnext, wfilled, deltaes, out>>
palvars == <<csv, npy, data, lut, pc, arr, result>>
parvars == <<nthreads, wnext, wfilled, deltaes, out>>

(***************************************************************************)
(* Sizes and the integer types.                                            *)
(***************************************************************************)
TableLen == Levels * Levels * Levels
IndexModulus == 2 ^ IndexBits
Channel == 0 .. (Levels - 1)
RGB == Channel \X Channel \X Channel

Uint16(x) == x % IndexModulus

RECURSIVE BitLen(_)
BitLen(x) == IF x = 0 THEN 0 ELSE 1 + BitLen(x \div 2)

\* A float64 value stored into a float32 slot: rounded to F32Mantissa
\* significant bits, to nearest, ties to even.
Float32(x) ==
    IF BitLen(x) <= F32Mantissa THEN x
    ELSE LET s == BitLen(x) - F32Mantissa
             unit == 2 ^ s
             q == x \div unit
             r == x % unit
             half == unit \div 2
             up == r > half \/ (r = half /\ q % 2 = 1)
         IN  (IF up THEN q + 1 ELSE q) * unit

(***************************************************************************)
(* jcc.convert and jcc.diff, as the specification describes them.          *)
(***************************************************************************)
rgb_to_ind(p) == p[1] * Levels * Levels + p[2] * Levels + p[3]

\* RGB -> XYZ by the sRGB matrix (in hundredths), XYZ -> LAB by the D65
\* white point and the linear branch of f(t), all in fixed point.
rgb_to_lab(p) ==
    LET X == 41 * p[1] + 36 * p[2] + 18 * p[3]
        Y == 21 * p[1] + 72 * p[2] + 7 * p[3]
        Z == 2 * p[1] + 12 * p[2] + 95 * p[3]
        fx == (X * 100) \div 95
        fy == Y
        fz == (Z * 100) \div 109
    IN  <<(116 * fy) \div 100, 5 * (fx - fy), 2 * (fy - fz)>>

\* The colour difference of two LAB triplets: nonnegative, 0 iff identical.
delta_e_cie2000(l1, a1, b1, l2, a2, b2) ==
    (l1 - l2) * (l1 - l2) + (a1 - a2) * (a1 - a2) + (b1 - b2) * (b1 - b2)

(***************************************************************************)
(* _get_all_rgbs: the numpy operations it is made of.                      *)
(***************************************************************************)
\* np.arange(n).repeat(k), as a sequence
arange_repeat(n, k) == [i \in 1 .. (n * k) |-> (i - 1) \div k]

\* a.reshape((-1, cols)).T.ravel()
reshape_T_ravel(a, cols) ==
    LET rows == Len(a) \div cols
    IN  [i \in 1 .. Len(a) |->
            LET q == (i - 1) \div rows
                p == (i - 1) % rows
            IN  a[p * cols + q + 1]]

get_all_rgbs_swapped ==
    LET a == arange_repeat(Levels, Levels * Levels)
        c1 == reshape_T_ravel(a, Levels * Levels)
        c2 == reshape_T_ravel(a, Levels)
    IN  [i \in 1 .. TableLen |-> <<a[i], c1[i], c2[i]>>]

get_all_rgbs ==
    LET a == arange_repeat(Levels, Levels * Levels)
        c1 == reshape_T_ravel(a, Levels)
        c2 == reshape_T_ravel(a, Levels * Levels)
    IN  [i \in 1 .. TableLen |-> <<a[i], c1[i], c2[i]>>]

\* _load_lab_array / __create_lab_array: the LAB value of every RGB triplet
load_lab_array == [i \in 1 .. TableLen |-> rgb_to_lab(get_all_rgbs[i])]

(***************************************************************************)
(* _create_lookup_table, one iteration of the outer loop at a time.        *)
(***************************************************************************)
\* the inner loop: the float32 buffer of distances of all_lab[i] to the palette
fill_deltaes(arr_lab, lab1) ==
    [j \in 1 .. Len(arr_lab) |->
        Float32(delta_e_cie2000(lab1[1], lab1[2], lab1[3],
                                arr_lab[j][1], arr_lab[j][2], arr_lab[j][3]))]

RECURSIVE ArgMaxFrom(_, _, _)
ArgMaxFrom(ds, j, best) ==
    IF j > Len(ds) THEN best
    ELSE ArgMaxFrom(ds, j + 1, IF ds[j] > ds[best] THEN j ELSE best)

ArgMax(ds) == ArgMaxFrom(ds, 2, 1) - 1

\* np.argmin scans the buffer and keeps the first minimum
RECURSIVE ArgMinFrom(_, _, _)
ArgMinFrom(ds, j, best) ==
    IF j > Len(ds) THEN best
    ELSE ArgMinFrom(ds, j + 1, IF ds[j] < ds[best] THEN j ELSE best)

\* np.argmin: the 0-based position of the first minimum
ArgMin(ds) == ArgMinFrom(ds, 2, 1) - 1

\* the whole function, run sequentially
CreateLookupTable(arr_lab, all_lab) ==
    [i \in 1 .. TableLen |-> Uint16(ArgMin(fill_deltaes(arr_lab, all_lab[i])))]

(***************************************************************************)
(* The palette files of the model.                                         *)
(***************************************************************************)
Row(name, p) == [name |-> name, r |-> p[1], g |-> p[2], b |-> p[3]]

Top == Levels - 1
Red == <<Top, 0, 0>>
Blue == <<0, 0, Top>>
White == <<Top, Top, Top>>
Olive == <<1, 1, 0>>
Green == <<0, Top, 0>>

PalRB == <<Row("red", Red), Row("blue", Blue)>>
PalBW == <<Row("blue", Blue), Row("white", White), Row("olive", Olive)>>
PalGB == <<Row("green", Green), Row("blue", Blue)>>
PalDup == <<Row("red", Red), Row("crimson", Red), Row("blue", Blue), Row("navy", Blue)>>
\* one row more than a table entry can index; only the last row is white
PalOver ==
    [j \in 1 .. (IndexModulus + 1) |->
        IF j = IndexModulus + 1 THEN Row("white", White)
        ELSE IF j % 2 = 1 THEN Row("red", Red) ELSE Row("blue", Blue)]

PaletteFiles == {PalRB, PalGB, PalBW, PalDup, PalOver}

\* the pixels the calls of the model are made with
Pixels == {Red, Blue, White, Olive, <<0, 1, Top>>}

\* the names quantize_with_palette is called with
PaletteNames == {"x11", "web"}

(***************************************************************************)
(* The Palette instance behind the name "x11".                             *)
(***************************************************************************)
NoResult == [op |-> "none", err |-> "ok", img |-> <<>>, idx |-> -1, rgb |-> <<>>]
Raised(op, img, e) == [op |-> op, err |-> e, img |-> img, idx |-> -1, rgb |-> <<>>]

\* np.save writes the header, then the entries, a block at a time
ChunkLen == Levels * Levels
FileComplete(f) == f.shape > 0 /\ Len(f.body) = f.shape

\* np.load: the array of a complete file; an empty or truncated file raises
np_load(f) ==
    IF f.shape = 0 THEN [err |-> "EOFError", val |-> <<>>]
    ELSE IF Len(f.body) < f.shape THEN [err |-> "ValueError", val |-> <<>>]
    ELSE [err |-> "ok", val |-> f.body]

\* Palette.data: the rows of the CSV file, read on first access and memoized
Data == IF data # <<>> THEN data[1] ELSE csv

\* Palette.rgbs: the r, g, b columns of the rows
rgbs(rows) == [j \in 1 .. Len(rows) |-> <<rows[j].r, rows[j].g, rows[j].b>>]

lookup_table_default ==
    IF lut # <<>> THEN [err |-> "ok", val |-> lut[1], memo |-> lut]
    ELSE IF npy # <<>> /\ np_load(npy[1]).err = "ok"
         THEN [err |-> "ok", val |-> np_load(npy[1]).val, memo |-> <<np_load(npy[1]).val>>]
         ELSE [err |-> "ok", val |-> [i \in 1 .. TableLen |-> 0], memo |-> <<>>]

\* Palette.lookup_table (a cached_property): the memo, else the loaded cache
\* file, which is then memoized; an exception memoizes nothing
lookup_table ==
    IF lut # <<>> THEN [err |-> "ok", val |-> lut[1], memo |-> lut]
    ELSE IF npy # <<>>
         THEN LET r == np_load(npy[1])
              IN  IF r.err = "ok"
                  THEN [err |-> "ok", val |-> r.val, memo |-> <<r.val>>]
                  ELSE [err |-> r.err, val |-> <<>>, memo |-> <<>>]
         ELSE [err |-> "FileNotFoundError", val |-> <<>>, memo |-> <<>>]

\* Palette.__init__: a fresh instance for the same path, nothing memoized
Construct ==
    /\ pc = "idle"
    /\ data' = <<>>
    /\ lut' = <<>>
    /\ result' = NoResult
    /\ UNCHANGED <<csv, npy, pc, arr, parvars>>

\* Palette.convert_to_indices
convert_to_indices(img) ==
    /\ pc = "idle"
    /\ LET t == lookup_table
       IN  /\ lut' = t.memo
           /\ result' = IF t.err = "ok"
                        THEN [op |-> "convert_to_indices", err |-> "ok", img |-> img,
                              idx |-> t.val[rgb_to_ind(img) + 1], rgb |-> <<>>]
                        ELSE Raised("convert_to_indices", img, t.err)
    /\ UNCHANGED <<csv, npy, data, pc, arr, parvars>>

\* self.rgbs[self.convert_to_indices(arr)]: rgbs is evaluated first
ConvertToRgbs(op, img) ==
    LET rows == Data
        t == lookup_table
    IN  /\ data' = <<rows>>
        /\ lut' = t.memo
        /\ result' =
              IF t.err # "ok" THEN Raised(op, img, t.err)
              ELSE LET i == t.val[rgb_to_ind(img) + 1]
                   IN  IF i >= Len(rows) THEN Raised(op, img, "IndexError")
                       ELSE [op |-> op, err |-> "ok", img |-> img, idx |-> i,
                             rgb |-> rgbs(rows)[i + 1]]

\* Palette.convert_to_rgbs
convert_to_rgbs(img) ==
    /\ pc = "idle"
    /\ ConvertToRgbs("convert_to_rgbs", img)
    /\ UNCHANGED <<csv, npy, pc, arr, parvars>>

\* quantize_with_palette, with _get_palette resolving the name
quantize_with_palette(img, name) ==
    /\ pc = "idle"
    /\ IF name = "x11"
       THEN ConvertToRgbs("quantize_with_palette", img)
       ELSE /\ result' = Raised("quantize_with_palette", img, "NotImplementedError")
            /\ UNCHANGED <<data, lut>>
    /\ UNCHANGED <<csv, npy, pc, arr, parvars>>

\* Palette.clear_cache: del self.lookup_table
clear_cache ==
    /\ pc = "idle"
    /\ IF lut = <<>>
       THEN /\ result' = Raised("clear_cache", <<>>, "AttributeError")
            /\ UNCHANGED lut
       ELSE /\ result' = [NoResult EXCEPT !.op = "clear_cache"]
            /\ lut' = <<>>
    /\ UNCHANGED <<csv, npy, data, pc, arr, parvars>>

(***************************************************************************)
(* Palette.build, step by step.                                            *)
(***************************************************************************)
\* build() is called: self.rgbs reads (and memoizes) the palette data
BuildStart ==
    /\ pc = "idle"
    /\ data' = <<Data>>
    /\ pc' = "compute"
    /\ result' = [NoResult EXCEPT !.op = "build", !.err = "running"]
    /\ UNCHANGED <<csv, npy, lut, arr, parvars>>

\* arr = _create_lookup_table(rgb_to_lab(self.rgbs), _load_lab_array())
BuildCompute ==
    /\ pc = "compute"
    /\ LET pal == rgbs(data[1])
           arr_lab == [j \in 1 .. Len(pal) |-> rgb_to_lab(pal[j])]
       IN  arr' = <<CreateLookupTable(arr_lab, load_lab_array)>>
    /\ pc' = "save"
    /\ UNCHANGED <<csv, npy, data, lut, result, parvars>>

\* np.save opens cached_data_path for writing, which truncates it
BuildOpen ==
    /\ pc = "save"
    /\ npy' = <<[shape |-> 0, body |-> <<>>]>>
    /\ pc' = "header"
    /\ UNCHANGED <<csv, data, lut, arr, result, parvars>>

BuildHeader ==
    /\ pc = "header"
    /\ npy' = <<[npy[1] EXCEPT !.shape = Len(arr[1])]>>
    /\ pc' = "write"
    /\ UNCHANGED <<csv, data, lut, arr, result, parvars>>

BuildWrite ==
    /\ pc = "write"
    /\ Len(npy[1].body) < Len(arr[1])
    /\ LET n == Len(npy[1].body)
       IN  npy' = <<[npy[1] EXCEPT !.body = @ \o SubSeq(arr[1], n + 1, n + ChunkLen)]>>
    /\ UNCHANGED <<csv, data, lut, pc, arr, result, parvars>>

BuildClose_refresh ==
    /\ pc = "write"
    /\ Len(npy[1].body) = Len(arr[1])
    /\ pc' = "idle"
    /\ lut' = arr
    /\ arr' = <<>>
    /\ result' = [NoResult EXCEPT !.op = "build"]
    /\ UNCHANGED <<csv, npy, data, parvars>>

\* the file is closed and build() returns
BuildClose ==
    /\ pc = "write"
    /\ Len(npy[1].body) = Len(arr[1])
    /\ pc' = "idle"
    /\ arr' = <<>>
    /\ result' = [NoResult EXCEPT !.op = "build"]
    /\ UNCHANGED <<csv, npy, data, lut, parvars>>

\* build() raises: out of memory while computing, an I/O error while saving
BuildFail ==
    /\ pc \in {"compute", "save", "header", "write"}
    /\ pc' = "idle"
    /\ arr' = <<>>
    /\ result' = Raised("build", <<>>, IF pc = "compute" THEN "MemoryError" ELSE "OSError")
    /\ UNCHANGED <<csv, npy, data, lut, parvars>>

(***************************************************************************)
(* The files change under the program.                                     *)
(***************************************************************************)
\* the palette CSV at data_path is replaced
EditCsv(rows) ==
    /\ pc = "idle"
    /\ rows # csv
    /\ csv' = rows
    /\ UNCHANGED <<npy, data, lut, pc, arr, result, parvars>>

\* the cache artifact at cached_data_path is deleted
DeleteCache ==
    /\ pc = "idle"
    /\ npy # <<>>
    /\ npy' = <<>>
    /\ UNCHANGED <<csv, data, lut, pc, arr, result, parvars>>

Init ==
    /\ csv \in PaletteFiles
    /\ npy = <<>>
    /\ data = <<>>
    /\ lut = <<>>
    /\ pc = "idle"
    /\ arr = <<>>
    /\ result = NoResult
    /\ nthreads = 0
    /\ wnext = <<>>
    /\ wfilled = <<>>
    /\ deltaes = <<>>
    /\ out = <<>>

Next ==
    \/ Construct
    \/ \E img \in Pixels : convert_to_indices(img)
    \/ \E img \in Pixels : convert_to_rgbs(img)
    \/ \E img \in Pixels, name \in PaletteNames : quantize_with_palette(img, name)
    \/ clear_cache
    \/ BuildStart
    \/ BuildCompute
    \/ BuildOpen
    \/ BuildHeader
    \/ BuildWrite
    \/ BuildClose
    \/ BuildFail
    \/ \E rows \in PaletteFiles : EditCsv(rows)
    \/ DeleteCache

Spec == Init /\ [][Next]_vars

(***************************************************************************)
(* _create_lookup_table as numba runs it: the iterations of the outer      *)
(* prange are split into one contiguous block per worker, and the workers  *)
(* run their blocks in any interleaving.  The inner prange of a nested     *)
(* parallel loop runs sequentially inside its iteration.                   *)
(***************************************************************************)
Workers == 1 .. MaxWorkers
ChunkLo(w) == ((w - 1) * TableLen) \div nthreads
ChunkHi(w) == (w * TableLen) \div nthreads

arr_lab_of(rows) == [j \in 1 .. Len(rows) |-> rgb_to_lab(rgbs(rows)[j])]

deltaes_shared(w) == 1

\* deltaes is allocated inside the loop body: each iteration has its own
deltaes_slot(w) == w

\* the inner loop of iteration wnext[w] fills the iteration's buffer
ParFill(w) ==
    /\ w <= nthreads
    /\ wnext[w] < ChunkHi(w)
    /\ ~wfilled[w]
    /\ deltaes' = [deltaes EXCEPT ![deltaes_slot(w)] =
                      fill_deltaes(arr_lab_of(data[1]), load_lab_array[wnext[w] + 1])]
    /\ wfilled' = [wfilled EXCEPT ![w] = TRUE]
    /\ UNCHANGED <<palvars, nthreads, wnext, out>>

\* out[i] = np.argmin(deltaes), and the worker moves to its next iteration
ParStore(w) ==
    /\ w <= nthreads
    /\ wfilled[w]
    /\ out' = [out EXCEPT ![wnext[w] + 1] = Uint16(ArgMin(deltaes[deltaes_slot(w)]))]
    /\ wnext' = [wnext EXCEPT ![w] = @ + 1]
    /\ wfilled' = [wfilled EXCEPT ![w] = FALSE]
    /\ UNCHANGED <<palvars, nthreads, deltaes>>

ParDone == \A w \in Workers : w <= nthreads => wnext[w] = ChunkHi(w) /\ ~wfilled[w]

\* every worker has finished its block: return out
ParReturn ==
    /\ pc = "compute"
    /\ nthreads > 0
    /\ ParDone
    /\ arr' = <<out>>
    /\ pc' = "save"
    /\ UNCHANGED <<csv, npy, data, lut, result, parvars>>

\* build() has read the palette and enters _create_lookup_table
InitPar ==
    /\ csv \in PaletteFiles
    /\ npy = <<>>
    /\ data = <<csv>>
    /\ lut = <<>>
    /\ pc = "compute"
    /\ arr = <<>>
    /\ result = [NoResult EXCEPT !.op = "build", !.err = "running"]
    /\ nthreads \in Workers
    /\ wnext = [w \in Workers |-> IF w <= nthreads THEN ChunkLo(w) ELSE 0]
    /\ wfilled = [w \in Workers |-> FALSE]
    /\ deltaes = [w \in Workers |-> [j \in 1 .. Len(csv) |-> 0]]
    /\ out = [i \in 1 .. TableLen |-> 0]

NextPar ==
    \/ \E w \in Workers : ParFill(w)
    \/ \E w \in Workers : ParStore(w)
    \/ ParReturn

SpecPar == InitPar /\ [][NextPar]_vars

(***************************************************************************)
(* Properties of the table.                                                *)
(***************************************************************************)
\* the table a sequential run of _create_lookup_table returns for each palette
BuiltTables ==
    [rows \in PaletteFiles |-> CreateLookupTable(arr_lab_of(rows), load_lab_array)]

\* the distance as the distance function returns it, before it is stored
Distance(lab1, lab2) ==
    delta_e_cie2000(lab1[1], lab1[2], lab1[3], lab2[1], lab2[2], lab2[3])

\* the smallest palette index whose colour is at least as near as every other
LowestNearest(arr_lab, lab1) ==
    CHOOSE j \in 0 .. (Len(arr_lab) - 1) :
        \A k \in 0 .. (Len(arr_lab) - 1) :
            /\ Distance(lab1, arr_lab[j + 1]) <= Distance(lab1, arr_lab[k + 1])
            /\ Distance(lab1, arr_lab[j + 1]) = Distance(lab1, arr_lab[k + 1]) => j <= k

\* C3: every entry out[i] of the table _create_lookup_table returns is the
\* smallest palette index j whose distance to all_lab[i] is minimal: an argmin
\* of the distance, the lower index on a tie.
C3_EntryIsLowestArgmin ==
    pc = "save" =>
        \A i \in 1 .. TableLen :
            arr[1][i] = LowestNearest(arr_lab_of(data[1]), load_lab_array[i])

\* C4: the table does not depend on how the outer iterations are split among
\* workers or interleaved: a filled buffer is the one its own iteration
\* computed, a slot holds its final value once its iteration has stored it and
\* the initial zero before, and the returned array is the one a sequential
\* run produces.
C4_ScheduleIndependent ==
    nthreads > 0 =>
        LET seq == BuiltTables[data[1]]
        IN  /\ \A w \in 1 .. nthreads :
                /\ wfilled[w] =>
                      deltaes[deltaes_slot(w)] =
                          fill_deltaes(arr_lab_of(data[1]), load_lab_array[wnext[w] + 1])
                /\ \A i \in ChunkLo(w) .. (ChunkHi(w) - 1) :
                      out[i + 1] = IF i < wnext[w] THEN seq[i + 1] ELSE 0
            /\ pc = "save" => arr[1] = seq

C4_Witness ==
    /\ pc = "save"
    /\ nthreads = MaxWorkers
    /\ \E i, k \in 1 .. TableLen : arr[1][i] # arr[1][k]

\* the table entry computed for the colour p
EntryFor(rows, p) ==
    Uint16(ArgMin(fill_deltaes(arr_lab_of(rows), rgb_to_lab(p))))

\* C5: row i of _get_all_rgbs() is (i div L^2, (i div L) mod L, i mod L) for
\* L levels per channel, rgb_to_ind is a bijection from the RGB triplets onto
\* 0 .. L^3 - 1 that sends white to L^3 - 1, and the table entry at
\* rgb_to_ind(r, g, b) is the entry computed for the colour (r, g, b).
C5_CanonicalOrder ==
    pc = "save" =>
        /\ \A i \in 0 .. (TableLen - 1) :
              get_all_rgbs[i + 1] =
                  <<i \div (Levels * Levels), (i \div Levels) % Levels, i % Levels>>
        /\ \A p \in RGB : rgb_to_ind(p) \in 0 .. (TableLen - 1)
        /\ \A p, q \in RGB : rgb_to_ind(p) = rgb_to_ind(q) => p = q
        /\ rgb_to_ind(White) = TableLen - 1
        /\ \A p \in RGB : arr[1][rgb_to_ind(p) + 1] = EntryFor(data[1], p)

C5_Witness ==
    /\ pc = "save"
    /\ Len(data[1]) = 3
    /\ arr[1][rgb_to_ind(White) + 1] = 1
    /\ arr[1][rgb_to_ind(Blue) + 1] = 0

(***************************************************************************)
(* Properties of the Palette instance and its cache file.                  *)
(***************************************************************************)
\* a call that quantizes a pixel through the palette "x11"
IndicesCall == \E img \in Pixels : convert_to_indices(img)
ConvertCall ==
    \E img \in Pixels :
        \/ convert_to_indices(img)
        \/ convert_to_rgbs(img)
        \/ quantize_with_palette(img, "x11")
BuildStep ==
    BuildStart \/ BuildCompute \/ BuildOpen \/ BuildHeader \/ BuildWrite \/ BuildClose
        \/ BuildFail
Unbuilt == npy = <<>> /\ lut = <<>>

\* C1: quantizing through a palette whose table is not built (no cache file,
\* nothing memoized) invokes the builder: the call returns a result and the
\* cache file exists afterwards.
C1_LazyBuildOnFirstUse ==
    [][(ConvertCall /\ Unbuilt) => (result'.err = "ok" /\ npy' # <<>>)]_vars

\* C1, amended: such a call raises FileNotFoundError, memoizes nothing and
\* leaves the cache file absent; only a step of an explicit build() creates
\* the cache file.
C1_RaisesUntilBuilt ==
    /\ [][(ConvertCall /\ Unbuilt) =>
             (result'.err = "FileNotFoundError" /\ npy' = <<>> /\ lut' = <<>>)]_vars
    /\ [][(npy = <<>> /\ npy' # <<>>) => BuildOpen]_vars

C1_Witness ==
    /\ Unbuilt
    /\ result.op \in {"convert_to_indices", "convert_to_rgbs", "quantize_with_palette"}
    /\ result.err = "FileNotFoundError"

\* C2: build() is all-or-nothing for the cache file: whenever a lookup_table
\* access can look at it, also after a build() that failed at any step, the
\* file is absent or holds the complete table.
C2_BuildAllOrNothing ==
    (pc = "idle" /\ npy # <<>>) =>
        (FileComplete(npy[1]) /\ Len(npy[1].body) = TableLen)

\* C6: a palette of more rows than a table entry can index is never loaded
\* (its construction fails), so no table entry is a truncated argmin.
C6_OversizedRejected ==
    /\ data # <<>> => Len(data[1]) <= IndexModulus
    /\ arr # <<>> =>
          \A i \in 1 .. TableLen :
              arr[1][i] = ArgMin(fill_deltaes(arr_lab_of(data[1]), load_lab_array[i]))

\* C8: whenever a file exists at cached_data_path, a lookup_table access of a
\* fresh instance returns (and memoizes) the file's contents without raising,
\* whatever the palette's colours are now; with the file deleted it raises
\* FileNotFoundError.
C8_ExistenceDecides ==
    [][(IndicesCall /\ lut = <<>> /\ data = <<>>) =>
          IF npy # <<>>
          THEN result'.err = "ok" /\ lut' = <<npy[1].body>>
          ELSE result'.err = "FileNotFoundError" /\ lut' = <<>>]_vars

\* C9: the memoized table of an instance (Construct makes another instance)
\* changes only when an access loads the cache file (it is set to the file's
\* contents) and when clear_cache() removes it.  An
\* access that raises FileNotFoundError memoizes nothing, and an access after
\* a build() that completed succeeds.  No step of build() and no deletion of
\* the cache file changes the memo, and convert_to_indices answers from the
\* memoized table while there is one.  clear_cache() without a memo raises
\* and changes nothing.
C9_MemoFrame ==
    /\ [][(lut' # lut /\ ~Construct) =>
             \/ /\ ConvertCall
                /\ lut = <<>>
                /\ npy # <<>>
                /\ FileComplete(npy[1])
                /\ lut' = <<npy[1].body>>
             \/ clear_cache /\ lut # <<>> /\ lut' = <<>>]_vars
    /\ [][(ConvertCall /\ result'.err = "FileNotFoundError") => lut' = <<>>]_vars
    /\ [][BuildClose => FileComplete(npy'[1])]_vars
    /\ [][(IndicesCall /\ lut = <<>> /\ npy # <<>> /\ FileComplete(npy[1])) =>
             result'.err = "ok"]_vars
    /\ [][((BuildStep \/ DeleteCache) /\ lut # <<>>) => lut' = lut]_vars
    /\ [][(IndicesCall /\ lut # <<>>) =>
             /\ lut' = lut
             /\ result'.err = "ok"
             /\ result'.idx = lut[1][rgb_to_ind(result'.img) + 1]]_vars
    /\ [][(clear_cache /\ lut = <<>>) =>
             /\ result'.err = "AttributeError"
             /\ UNCHANGED <<csv, npy, data, lut, pc, arr>>]_vars

\* a build() completed while a table was memoized, and the memo is not the
\* table now in the file
C9_Witness ==
    /\ result.op = "build"
    /\ result.err = "ok"
    /\ lut # <<>>
    /\ npy # <<>>
    /\ lut[1] # npy[1].body

BuiltOnCurrent == lut # <<>> /\ lut[1] = BuiltTables[Data]
Quantized(p) == rgbs(Data)[lut[1][rgb_to_ind(p) + 1] + 1]

\* C10: with the table build() produces for the palette's current colours,
\* every output pixel of quantize_with_palette is one of the palette's RGB
\* values and quantizing an output again returns it unchanged, duplicate RGB
\* rows included.
C10_QuantizeIdempotent ==
    BuiltOnCurrent =>
        /\ \A p \in RGB :
              /\ \E j \in 1 .. Len(Data) : Quantized(p) = rgbs(Data)[j]
              /\ Quantized(Quantized(p)) = Quantized(p)
        /\ (result.op = "quantize_with_palette" /\ result.err = "ok") =>
              result.rgb = Quantized(result.img)

C10_Witness ==
    /\ BuiltOnCurrent
    /\ \E j, k \in 1 .. Len(Data) : j # k /\ rgbs(Data)[j] = rgbs(Data)[k]
    /\ result.op = "quantize_with_palette"
    /\ result.err = "ok"
    /\ result.rgb # result.img

====
